---- MODULE Spec2Model ----
(***************************************************************************)
(* A model of prefixdate/parse.py: the DatePrefix constructor, its regular  *)
(* expression, the per-field extraction that degrades the precision, the   *)
(* time zone resolution and the rendering of the canonical text.           *)
(*                                                                         *)
(* A Python str is a sequence of one-character strings.  An Optional value *)
(* is a sequence of length 0 (None) or 1 (the value).  A regex group that   *)
(* did not participate is <<>>: every named group of REGEX needs at least  *)
(* one character, so <<>> is never the text of a group that matched.       *)
(***************************************************************************)
EXTENDS Integers, Sequences, FiniteSets, TLC

VARIABLES
    pc,         \* position in DatePrefix.__init__ / _parse
    raw,        \* the constructor's first argument
    start,      \* the constructor's precision argument
    arg,        \* the argument of the running _parse call (it recurses once)
    match,      \* the groups of REGEX.match(arg)
    fields,     \* the locals year .. second of _parse, as far as extracted
    precision,  \* self.precision
    dt,         \* self.dt
    text,       \* self.text
    warned      \* whether log.warning was called

vars == <<pc, raw, start, arg, match, fields, precision, dt, text, warned>>

----------------------------------------------------------------------------
(* Characters and integers                                                 *)

DigitChars == <<"0", "1", "2", "3", "4", "5", "6", "7", "8", "9">>

Digit == {DigitChars[i] : i \in 1..10}

DigitVal(c) == (CHOOSE i \in 1..10 : DigitChars[i] = c) - 1

Min(a, b) == IF a <= b THEN a ELSE b

\* int(s) for a non-empty string of decimal digits
RECURSIVE ToInt(_)
ToInt(s) ==
    IF Len(s) = 0 THEN 0
    ELSE 10 * ToInt(SubSeq(s, 1, Len(s) - 1)) + DigitVal(s[Len(s)])

\* the decimal digits of n >= 0, zero-padded to at least width characters
RECURSIVE Pad(_, _)
Pad(n, width) ==
    IF width <= 1 /\ n < 10 THEN <<DigitChars[n + 1]>>
    ELSE Append(Pad(n \div 10, width - 1), DigitChars[(n % 10) + 1])

\* str(n) for an int n
IntToStr(n) == IF n < 0 THEN <<"-">> \o Pad(-n, 1) ELSE Pad(n, 1)

\* Take with the slice one character short (fault injection)
TakeShort(s, n) == SubSeq(s, 1, Min(n, Len(s)) - (IF n > 0 THEN 1 ELSE 0))

\* s[:n] for n >= 0
Take(s, n) == SubSeq(s, 1, Min(n, Len(s)))

None == <<>>
Some(v) == <<v>>

----------------------------------------------------------------------------
(* Precision (prefixdate/precision.py: the enumeration and its values)     *)

PrecisionValue ==
    [EMPTY |-> 0, YEAR |-> 4, MONTH |-> 7, DAY |-> 10,
     HOUR |-> 13, MINUTE |-> 16, SECOND |-> 19, FULL |-> 32]

Precisions == DOMAIN PrecisionValue

\* Precision(pval): the member with that value
PrecisionOf(pval) == CHOOSE p \in Precisions : PrecisionValue[p] = pval

----------------------------------------------------------------------------
(* REGEX                                                                   *)

\* the character at 1-based position i, or "" past the end
At(s, i) == IF i >= 1 /\ i <= Len(s) THEN s[i] ELSE ""

IsDigitAt(s, i) == At(s, i) \in Digit

\* how many characters [lead]?[0-9] takes at position i (0: no match).  The
\* greedy optional class is tried first; the engine gives it up only when the
\* digit after it is missing.
OptLeadDigit(s, i, lead) ==
    IF At(s, i) \in lead /\ IsDigitAt(s, i + 1) THEN 2
    ELSE IF IsDigitAt(s, i) THEN 1
    ELSE 0

\* how many characters \d{1,2} takes at position i (0: no match)
OneOrTwoDigits(s, i) ==
    IF IsDigitAt(s, i) /\ IsDigitAt(s, i + 1) THEN 2
    ELSE IF IsDigitAt(s, i) THEN 1
    ELSE 0

\* the text of a group of n characters at position i; None when n = 0
Group(s, i, n) == IF n = 0 THEN None ELSE SubSeq(s, i, i + n - 1)

FieldNames == <<"year", "month", "day", "hour", "minute", "second">>

NoMatch ==
    [year |-> None, month |-> None, day |-> None, hour |-> None,
     minute |-> None, second |-> None, zulu |-> FALSE,
     tzsign |-> None, tzhour |-> None, tzminute |-> None]

\* what precedes each field's digits in the pattern
FieldSeparator ==
    [year |-> {}, month |-> {"-"}, day |-> {"-"}, hour |-> {"T", " "},
     minute |-> {":"}, second |-> {":"}]

\* FieldLen with a year pattern of 2\d{3} (fault injection)
FieldLenYear2(s, i, f) ==
    CASE f = "year" ->
            IF At(s, i) = "2" /\ IsDigitAt(s, i + 1)
               /\ IsDigitAt(s, i + 2) /\ IsDigitAt(s, i + 3)
            THEN 4 ELSE 0
      [] f = "month" -> OptLeadDigit(s, i, {"0", "1"})
      [] f = "day" -> OptLeadDigit(s, i, {"0", "1", "2", "3"})
      [] f = "hour" -> OptLeadDigit(s, i, {"0", "1", "2"})
      [] OTHER -> OneOrTwoDigits(s, i)

\* how many characters the digits of field f take at position i (0: no match)
FieldLen(s, i, f) ==
    CASE f = "year" ->
            IF At(s, i) \in {"1", "2"} /\ IsDigitAt(s, i + 1)
               /\ IsDigitAt(s, i + 2) /\ IsDigitAt(s, i + 3)
            THEN 4 ELSE 0
      [] f = "month" -> OptLeadDigit(s, i, {"0", "1"})
      [] f = "day" -> OptLeadDigit(s, i, {"0", "1", "2", "3"})
      [] f = "hour" -> OptLeadDigit(s, i, {"0", "1", "2"})
      [] OTHER -> OneOrTwoDigits(s, i)

\* the scan at the nested group of field f.  st is the scan so far: pos the
\* next position, ok whether the group around this one matched, groups the
\* named groups.  A group that cannot match ends the scan: everything nested
\* in it stays None, and the trailing .* takes the rest.
MatchField(s, f, st) ==
    LET sep == IF FieldSeparator[f] = {} THEN 0 ELSE 1
        at == st.pos + sep
    IN  IF st.ok /\ (sep = 0 \/ At(s, st.pos) \in FieldSeparator[f])
           /\ FieldLen(s, at, f) > 0
        THEN [pos |-> at + FieldLen(s, at, f), ok |-> TRUE,
              groups |-> [st.groups EXCEPT
                            ![f] = Group(s, at, FieldLen(s, at, f))]]
        ELSE [st EXCEPT !.ok = FALSE]

\* the end of the scan, inside the group of the second: (\.\d{6})? and then
\* (Z|(tzsign)(tzhour)(:?(tzminute))?)?
MatchZone(s, st) ==
    LET fracLen == IF At(s, st.pos) = "."
                      /\ \A k \in 1..6 : IsDigitAt(s, st.pos + k)
                   THEN 7 ELSE 0
        p == st.pos + fracLen
        offset == At(s, p) \in {"-", "+"}
                     /\ IsDigitAt(s, p + 1) /\ IsDigitAt(s, p + 2)
        tzminuteAt == IF At(s, p + 3) = ":" THEN p + 4 ELSE p + 3
        tzminuteLen == IF IsDigitAt(s, tzminuteAt)
                          /\ IsDigitAt(s, tzminuteAt + 1)
                       THEN 2 ELSE 0
    IN  IF ~st.ok THEN st.groups
        ELSE IF At(s, p) = "Z" THEN [st.groups EXCEPT !.zulu = TRUE]
        ELSE IF offset
        THEN [st.groups EXCEPT !.tzsign = Group(s, p, 1),
                               !.tzhour = Group(s, p + 1, 2),
                               !.tzminute = Group(s, tzminuteAt, tzminuteLen)]
        ELSE st.groups

\* the scan from the k-th field on (nxt names the scan after that field)
RECURSIVE MatchFrom(_, _, _)
MatchFrom(s, k, st) ==
    IF k > Len(FieldNames) THEN MatchZone(s, st)
    ELSE CHOOSE m \in {MatchFrom(s, k + 1, nxt) :
                        nxt \in {MatchField(s, FieldNames[k], st)}} : TRUE

\* REGEX.match(s).  Every component of the pattern is optional and it ends
\* in .*, so a str always matches; each nested group matches greedily when
\* it can, and is reached only when the group around it matched.
REGEXmatch(s) ==
    CHOOSE m \in {MatchFrom(s, 1, st) :
                    st \in {[pos |-> 1, ok |-> TRUE, groups |-> NoMatch]}} :
        TRUE

----------------------------------------------------------------------------
(* datetime: the calendar, construction, conversion to UTC, isoformat      *)

IsLeap(y) == (y % 4 = 0 /\ y % 100 # 0) \/ y % 400 = 0

DaysInMonth(y, m) ==
    IF m = 2 THEN (IF IsLeap(y) THEN 29 ELSE 28)
    ELSE IF m \in {4, 6, 9, 11} THEN 30
    ELSE 31

\* whether datetime(year, month, day, hour, minute, second) is accepted
ValidDatetime(y, mo, d, h, mi, s) ==
    /\ y >= 1 /\ y <= 9999
    /\ mo >= 1 /\ mo <= 12
    /\ d >= 1 /\ d <= DaysInMonth(y, mo)
    /\ h >= 0 /\ h <= 23
    /\ mi >= 0 /\ mi <= 59
    /\ s >= 0 /\ s <= 59

\* an aware datetime; offset is its utcoffset() in minutes
Datetime(y, mo, d, h, mi, s, us, off) ==
    [year |-> y, month |-> mo, day |-> d, hour |-> h, minute |-> mi,
     second |-> s, microsecond |-> us, offset |-> off]

\* the calendar date one day before / after
DayBefore(y, mo, d) ==
    IF d > 1 THEN <<y, mo, d - 1>>
    ELSE IF mo > 1 THEN <<y, mo - 1, DaysInMonth(y, mo - 1)>>
    ELSE <<y - 1, 12, 31>>

DayAfter(y, mo, d) ==
    IF d < DaysInMonth(y, mo) THEN <<y, mo, d + 1>>
    ELSE IF mo < 12 THEN <<y, mo + 1, 1>>
    ELSE <<y + 1, 1, 1>>

\* AsUTC with the offset added instead of subtracted (fault injection)
AsUTCWrongSign(d) ==
    LET m == d.hour * 60 + d.minute + d.offset
        date == IF m < 0 THEN DayBefore(d.year, d.month, d.day)
                ELSE IF m >= 1440 THEN DayAfter(d.year, d.month, d.day)
                ELSE <<d.year, d.month, d.day>>
        mm == (m + 1440) % 1440
    IN  Datetime(date[1], date[2], date[3], mm \div 60, mm % 60,
                 d.second, d.microsecond, 0)

\* d.astimezone(timezone.utc); an offset is strictly within 24 hours, so the
\* date moves by at most one day
AsUTC(d) ==
    LET m == d.hour * 60 + d.minute - d.offset
        date == IF m < 0 THEN DayBefore(d.year, d.month, d.day)
                ELSE IF m >= 1440 THEN DayAfter(d.year, d.month, d.day)
                ELSE <<d.year, d.month, d.day>>
        mm == (m + 1440) % 1440
    IN  Datetime(date[1], date[2], date[3], mm \div 60, mm % 60,
                 d.second, d.microsecond, 0)

\* the "+HH:MM" text of a utcoffset of off minutes
OffsetText(off) ==
    LET a == IF off < 0 THEN -off ELSE off
    IN  <<IF off < 0 THEN "-" ELSE "+">> \o Pad(a \div 60, 2)
            \o <<":">> \o Pad(a % 60, 2)

\* d.isoformat() for an aware datetime
IsoFormat(d) ==
    Pad(d.year, 4) \o <<"-">> \o Pad(d.month, 2) \o <<"-">> \o Pad(d.day, 2)
        \o <<"T">> \o Pad(d.hour, 2) \o <<":">> \o Pad(d.minute, 2)
        \o <<":">> \o Pad(d.second, 2)
        \o (IF d.microsecond # 0 THEN <<".">> \o Pad(d.microsecond, 6)
            ELSE <<>>)
        \o OffsetText(d.offset)

\* date(y, mo, d).isoformat()
DateIsoFormat(y, mo, d) ==
    Pad(y, 4) \o <<"-">> \o Pad(mo, 2) \o <<"-">> \o Pad(d, 2)

----------------------------------------------------------------------------
(* DatePrefix: the helpers of _parse                                       *)

\* x or default, for an Optional[int] x
Or(x, default) == IF x = None \/ x[1] = 0 THEN default ELSE x[1]

\* the precision each field is extracted with (the third argument of the
\* six _extract calls)
FieldCap ==
    [year |-> "EMPTY", month |-> "YEAR", day |-> "MONTH",
     hour |-> "DAY", minute |-> "HOUR", second |-> "DAY"]

\* Extract with max in the place of min (fault injection)
ExtractMax(prec, m, group, cap) ==
    IF m[group] # None /\ ToInt(m[group]) > 0
    THEN [value |-> Some(ToInt(m[group])), precision |-> prec]
    ELSE [value |-> None,
          precision |-> PrecisionOf(IF PrecisionValue[prec] >= PrecisionValue[cap]
                                    THEN PrecisionValue[prec]
                                    ELSE PrecisionValue[cap])]

\* Extract with value >= 0 in the place of value > 0 (fault injection)
ExtractZeroOk(prec, m, group, cap) ==
    IF m[group] # None
    THEN [value |-> Some(ToInt(m[group])), precision |-> prec]
    ELSE [value |-> None,
          precision |-> PrecisionOf(Min(PrecisionValue[prec],
                                        PrecisionValue[cap]))]

\* _extract with self.precision = prec: the value returned and the precision
\* it leaves in self.precision.  int(None) raises TypeError, which is caught.
Extract(prec, m, group, cap) ==
    IF m[group] # None /\ ToInt(m[group]) > 0
    THEN [value |-> Some(ToInt(m[group])), precision |-> prec]
    ELSE [value |-> None,
          precision |-> PrecisionOf(Min(PrecisionValue[prec],
                                        PrecisionValue[cap]))]

\* Tzinfo with the sign left off the minutes (fault injection)
TzinfoUnsigned(m) ==
    IF m.tzhour = None \/ m.tzminute = None THEN 0
    ELSE LET sign == IF m.tzsign = <<"-">> THEN -1 ELSE 1
             delta == sign * ToInt(m.tzhour) * 60 + ToInt(m.tzminute)
         IN  IF delta > -1440 /\ delta < 1440 THEN delta ELSE 0

\* _tzinfo: the utcoffset in minutes.  int(None) for a missing tzhour or
\* tzminute raises TypeError, and timezone() raises ValueError for a delta
\* not strictly within 24 hours; both are caught and give timezone.utc.
Tzinfo(m) ==
    IF m.tzhour = None \/ m.tzminute = None THEN 0
    ELSE LET sign == IF m.tzsign = <<"-">> THEN -1 ELSE 1
             hours == sign * ToInt(m.tzhour)
             minutes == sign * ToInt(m.tzminute)
             delta == hours * 60 + minutes
         IN  IF delta > -1440 /\ delta < 1440 THEN delta ELSE 0

NoFields ==
    [year |-> None, month |-> None, day |-> None,
     hour |-> None, minute |-> None, second |-> None]

\* the datetime(...) call of _parse: None when it raises ValueError
BuildDatetime(f, m) ==
    LET y == Or(f.year, 1000)
        mo == Or(f.month, 1)
        d == Or(f.day, 1)
        h == Or(f.hour, 0)
        mi == Or(f.minute, 0)
        sec == Or(f.second, 0)
    IN  IF ValidDatetime(y, mo, d, h, mi, sec)
        THEN Some(Datetime(y, mo, d, h, mi, sec, 0, Tzinfo(m)))
        ELSE None

\* Render without the conversion to UTC (fault injection)
RenderLocal(d, prec) ==
    IF d # None /\ prec # "EMPTY"
    THEN Some(Take(IsoFormat(d[1]), PrecisionValue[prec]))
    ELSE None

\* self.text as __init__ computes it from self.dt and self.precision
Render(d, prec) ==
    IF d # None /\ prec # "EMPTY"
    THEN Some(Take(IsoFormat(AsUTC(d[1])), PrecisionValue[prec]))
    ELSE None

\* str(self)
Str(t) == IF t = None THEN <<>> ELSE t[1]

\* the k-th _extract call applied to acc, the fields and precision so far
ExtractInto(acc, m, k) ==
    [fields |-> [acc.fields EXCEPT ![FieldNames[k]] =
                    Extract(acc.precision, m, FieldNames[k],
                            FieldCap[FieldNames[k]]).value],
     precision |-> Extract(acc.precision, m, FieldNames[k],
                           FieldCap[FieldNames[k]]).precision]

\* the _extract calls from the k-th to the n-th, in order
RECURSIVE ExtractFrom(_, _, _, _)
ExtractFrom(acc, m, k, n) ==
    IF k > n THEN acc
    ELSE CHOOSE r \in {ExtractFrom(nxt, m, k + 1, n) :
                        nxt \in {ExtractInto(acc, m, k)}} : TRUE

\* the state of _parse after the first n _extract calls on match m
ExtractUpTo(prec, m, n) ==
    CHOOSE r \in {ExtractFrom(acc, mm, 1, n) :
                    acc \in {[fields |-> NoFields, precision |-> prec]},
                    mm \in {m}} : TRUE

\* the return of _parse after the six _extract calls gave r on match m
Finish(r, m) == [dt |-> BuildDatetime(r.fields, m), precision |-> r.precision]

\* _parse on a str
ParseStr(s, prec) ==
    CHOOSE res \in {Finish(ExtractUpTo(prec, m, Len(FieldNames)), m) :
                        m \in {REGEXmatch(s)}} : TRUE

\* whether _parse recurses on the int n as str(n)
IntAccepted(n) == 1000 < n /\ n < 9999

\* _parse: the value returned and the precision left in self.precision
Parse(r, prec) ==
    CASE r.kind = "str" -> ParseStr(r.s, prec)
      [] r.kind = "datetime" -> [dt |-> Some(r.dt), precision |-> prec]
      [] r.kind = "date" ->
            ParseStr(DateIsoFormat(r.year, r.month, r.day), prec)
      [] r.kind = "int" /\ IntAccepted(r.n) -> ParseStr(IntToStr(r.n), prec)
      [] r.kind = "prefix" -> [dt |-> r.p.dt, precision |-> r.p.precision]
      [] OTHER -> [dt |-> None, precision |-> prec]

\* DatePrefix(r, prec) as a value: its three slots
DatePrefixOf(r, prec) ==
    LET res == Parse(r, prec)
    IN  [precision |-> res.precision, dt |-> res.dt,
         text |-> Render(res.dt, res.precision)]

----------------------------------------------------------------------------
(* The inputs the constructor is given                                     *)

\* the largest month, day, hour, minute and second number written in a string
MaxMonth == 13
MaxDay == 32
MaxHour == 24
MaxMinute == 60
MaxSecond == 60

\* a number as it may be written in a field: two digits, and one digit too
Written(n) == {Pad(n, 2)} \cup (IF n < 10 THEN {Pad(n, 1)} ELSE {})

YearTexts ==
    {<<"2","0","0","1">>, <<"1","0","0","0">>, <<"2","9","9","9">>,
     <<"3","0","0","0">>, <<"0","9","9","9">>, <<"9","9","9","9">>,
     <<"1","9","0","0">>, <<"2","0","0">>}

MonthTexts == UNION {Written(n) : n \in 0..MaxMonth}
DayTexts == UNION {Written(n) : n \in {0, 1, 9, 28, 29, 30} \cup (31..MaxDay)}
HourTexts == UNION {Written(n) : n \in {0, 1, 9, 12} \cup (23..MaxHour)}
MinuteTexts == UNION {Written(n) : n \in {0, 1, 9} \cup (59..MaxMinute)}
SecondTexts == UNION {Written(n) : n \in {0, 1, 9} \cup (59..MaxSecond)}

TzTexts ==
    {<<>>, <<"Z">>,
     <<"+","0","0",":","0","0">>, <<"-","0","0",":","0","0">>,
     <<"+","0","2",":","0","0">>, <<"-","0","2",":","0","0">>,
     <<"-","0","5",":","3","0">>, <<"+","0","2",":","2","2">>,
     <<"+","0","2","0","0">>, <<"-","0","5","3","0">>,
     <<"+","0","2">>, <<"-","0","5">>, <<"+","0","2",":">>,
     <<"+","2",":","0","0">>,
     <<"+","2","3",":","5","9">>, <<"-","2","3",":","5","9">>,
     <<"+","2","4",":","0","0">>, <<"+","0","2",":","9","9">>,
     <<".","1","2","3","4","5","6","+","0","2",":","0","0">>,
     <<".","5","+","0","2",":","0","0">>,
     <<".","1","2","3","4","5","6","Z">>,
     <<"x","+","0","2",":","0","0">>}

\* the text of a timestamp cut after its first depth components (1: the year
\* .. 6: the second, 7: the time zone suffix)
Stamp(y, mo, d, sep, h, mi, sec, tz, depth) ==
    y \o (IF depth >= 2 THEN <<"-">> \o mo ELSE <<>>)
      \o (IF depth >= 3 THEN <<"-">> \o d ELSE <<>>)
      \o (IF depth >= 4 THEN <<sep>> \o h ELSE <<>>)
      \o (IF depth >= 5 THEN <<":">> \o mi ELSE <<>>)
      \o (IF depth >= 6 THEN <<":">> \o sec ELSE <<>>)
      \o (IF depth >= 7 THEN tz ELSE <<>>)

BaseTz == <<"+","0","2",":","0","0">>

\* 2001-05-17T14:22:31+02:00 with one component replaced, cut at any depth
Varied ==
    LET y == <<"2","0","0","1">>
        mo == Pad(5, 2)
        d == Pad(17, 2)
        h == Pad(14, 2)
        mi == Pad(22, 2)
        sec == Pad(31, 2)
    IN  {Stamp(y, mo, d, "T", h, mi, sec, BaseTz, k) : k \in 1..7}
        \cup {Stamp(yy, mo, d, "T", h, mi, sec, BaseTz, k) :
                yy \in YearTexts, k \in {1, 7}}
        \cup {Stamp(y, x, d, "T", h, mi, sec, BaseTz, k) :
                x \in MonthTexts, k \in {2, 7}}
        \cup {Stamp(y, mo, x, "T", h, mi, sec, BaseTz, k) :
                x \in DayTexts, k \in {3, 7}}
        \cup {Stamp(y, mo, d, "T", x, mi, sec, BaseTz, k) :
                x \in HourTexts, k \in {4, 7}}
        \cup {Stamp(y, mo, d, " ", h, x, sec, BaseTz, k) :
                x \in MinuteTexts, k \in {5, 7}}
        \cup {Stamp(y, mo, d, "T", h, mi, x, BaseTz, k) :
                x \in SecondTexts, k \in {6, 7}}
        \cup {Stamp(y, Pad(2, 2), x, "T", h, mi, sec, <<>>, 3) :
                x \in DayTexts}
        \cup {Stamp(yy, Pad(2, 2), Pad(29, 2), "T", h, mi, sec, <<>>, 3) :
                yy \in YearTexts}

\* wall clocks that a time zone suffix moves across a day, month or year
\* boundary, to hour 00, or out of the years the pattern accepts
ClockBases ==
    {<<Pad(2001, 4), Pad(5, 2), Pad(17, 2), Pad(14, 2), Pad(22, 2), Pad(31, 2)>>,
     <<Pad(2001, 4), Pad(1, 2), Pad(1, 2), Pad(1, 2), Pad(30, 2), Pad(15, 2)>>,
     <<Pad(2000, 4), Pad(2, 2), Pad(29, 2), Pad(23, 2), Pad(45, 2), Pad(59, 2)>>,
     <<Pad(1000, 4), Pad(1, 2), Pad(1, 2), Pad(1, 2), Pad(1, 2), Pad(1, 2)>>,
     <<Pad(2999, 4), Pad(12, 2), Pad(31, 2), Pad(23, 2), Pad(1, 2), Pad(1, 2)>>,
     <<Pad(2001, 4), Pad(5, 2), Pad(17, 2), Pad(2, 2), Pad(22, 2), Pad(31, 2)>>,
     <<Pad(2001, 4), Pad(3, 2), Pad(1, 2), Pad(0, 2), Pad(30, 2), Pad(0, 2)>>}

Zoned ==
    {Stamp(b[1], b[2], b[3], "T", b[4], b[5], b[6], tz, 7) :
        b \in ClockBases, tz \in TzTexts}

Malformed ==
    {<<>>, <<"x">>, <<"a","b","c","d">>, <<"x","2","0","0","1">>,
     <<"2","0","0","1","x">>, <<"2","0","0","1","-">>,
     <<"2","0","0","1","-","x">>, <<"2","0","0","1","0","5">>,
     <<"2","0","0","1","-","0","5","-">>,
     <<"2","0","0","1","-","0","5","-","1","7","T">>,
     <<"2","0","0","1","-","0","5","-","1","7","x","1","4">>,
     <<"2","0","0","1","-","0","5","-","1","7","T","1","4",":">>,
     <<"2","0","0","1","-","0","5","-","5","0">>,
     <<"2","0","0","1","-","1","3","-","5","0">>,
     <<"2","0","0","1","-","2","5">>,
     <<"2","0","0","1","-","0","5","-","1","7","T","9","5">>,
     <<"2","0","0","1","-","0","5","-","1","7","T","1","2","3",":","4","5">>,
     <<" ","2","0","0","1">>, <<"-","2","0","0","1">>}

StrInputs == {[kind |-> "str", s |-> x] : x \in Varied \cup Zoned \cup Malformed}

IntInputs ==
    {[kind |-> "int", n |-> x] :
        x \in {-2001, 0, 1, 999, 1000, 1001, 1900, 2001, 2999, 3000, 9998,
               9999, 10000}}

DateInputs ==
    {[kind |-> "date", year |-> x[1], month |-> x[2], day |-> x[3]] :
        x \in {<<2001, 5, 17>>, <<2000, 2, 29>>, <<1000, 1, 1>>,
               <<999, 12, 31>>, <<3000, 1, 1>>, <<1, 1, 1>>,
               <<9999, 12, 31>>}}

\* datetime values carry a tzinfo here, so astimezone() does not depend on
\* the zone of the machine, and keep a day away from datetime.min and .max
DatetimeInputs ==
    {[kind |-> "datetime", dt |-> x] :
        x \in {Datetime(2001, 5, 17, 14, 22, 31, 0, 120),
               Datetime(2001, 5, 17, 14, 22, 31, 500000, 120),
               Datetime(2001, 5, 17, 12, 22, 31, 7, 0),
               Datetime(2001, 5, 17, 0, 0, 0, 0, 0),
               Datetime(2001, 1, 1, 0, 30, 0, 0, 120),
               Datetime(2000, 2, 29, 23, 45, 59, 0, -330),
               Datetime(999, 6, 1, 8, 9, 10, 0, 0),
               Datetime(3000, 6, 1, 8, 9, 10, 0, -1439),
               Datetime(2001, 12, 31, 23, 59, 59, 999999, -1)}}

\* the DatePrefix values handed to the constructor were constructed earlier
PrefixSeeds ==
    {[kind |-> "none"]}
    \cup {[kind |-> "str", s |-> Stamp(Pad(2001, 4), Pad(5, 2), Pad(17, 2),
                                       "T", Pad(14, 2), Pad(22, 2),
                                       Pad(31, 2), BaseTz, k)] : k \in 1..7}
    \cup {[kind |-> "str", s |-> x] :
            x \in {<<>>, <<"2","0","0","1","-","1","3">>}}

PrefixInputs ==
    {[kind |-> "prefix", p |-> DatePrefixOf(r, q)] :
        r \in PrefixSeeds, q \in {"FULL", "SECOND", "YEAR"}}

\* None, and a value of no accepted type (a float, a list, bytes)
Raws ==
    {[kind |-> "none"], [kind |-> "other"]}
    \cup StrInputs \cup IntInputs \cup DateInputs
    \cup DatetimeInputs \cup PrefixInputs

----------------------------------------------------------------------------
(* DatePrefix.__init__ as a state machine                                  *)

Init ==
    /\ pc = "idle"
    /\ raw = [kind |-> "none"]
    /\ start = "FULL"
    /\ arg = [kind |-> "none"]
    /\ match = NoMatch
    /\ fields = NoFields
    /\ precision = "FULL"
    /\ dt = None
    /\ text = None
    /\ warned = FALSE

\* DatePrefix(r, p) is called: self.precision = precision, then _parse(raw)
New(r, p) ==
    /\ pc = "idle"
    /\ pc' = "parse"
    /\ raw' = r
    /\ start' = p
    /\ arg' = r
    /\ precision' = p
    /\ match' = NoMatch
    /\ fields' = NoFields
    /\ dt' = None
    /\ text' = None
    /\ warned' = FALSE

\* _parse, the argument is a str: REGEX.match succeeds
Match ==
    /\ pc = "parse"
    /\ arg.kind = "str"
    /\ match' = REGEXmatch(arg.s)
    /\ pc' = FieldNames[1]
    /\ UNCHANGED <<raw, start, arg, fields, precision, dt, text, warned>>

\* _parse, TypeError, isinstance(raw, datetime): the value is returned as is
ParseDatetime ==
    /\ pc = "parse"
    /\ arg.kind = "datetime"
    /\ dt' = Some(arg.dt)
    /\ pc' = "render"
    /\ UNCHANGED <<raw, start, arg, match, fields, precision, text, warned>>

\* _parse, TypeError, isinstance(raw, date): recursion on raw.isoformat()
ParseDate ==
    /\ pc = "parse"
    /\ arg.kind = "date"
    /\ arg' = [kind |-> "str",
               s |-> DateIsoFormat(arg.year, arg.month, arg.day)]
    /\ UNCHANGED <<pc, raw, start, match, fields, precision, dt, text, warned>>

\* _parse, TypeError, isinstance(raw, int) within range: recursion on str(raw)
ParseInt ==
    /\ pc = "parse"
    /\ arg.kind = "int"
    /\ IntAccepted(arg.n)
    /\ arg' = [kind |-> "str", s |-> IntToStr(arg.n)]
    /\ UNCHANGED <<pc, raw, start, match, fields, precision, dt, text, warned>>

\* _parse, TypeError, isinstance(raw, DatePrefix): its precision and dt
ParsePrefix ==
    /\ pc = "parse"
    /\ arg.kind = "prefix"
    /\ precision' = arg.p.precision
    /\ dt' = arg.p.dt
    /\ pc' = "render"
    /\ UNCHANGED <<raw, start, arg, match, fields, text, warned>>

\* _parse, TypeError, no accepted type: a warning, and None
ParseInvalid ==
    /\ pc = "parse"
    /\ \/ arg.kind \in {"none", "other"}
       \/ arg.kind = "int" /\ ~IntAccepted(arg.n)
    /\ warned' = TRUE
    /\ dt' = None
    /\ pc' = "render"
    /\ UNCHANGED <<raw, start, arg, match, fields, precision, text>>

\* the k-th of the six _extract calls of _parse
ExtractField(k) ==
    /\ pc = FieldNames[k]
    /\ LET f == FieldNames[k]
           e == Extract(precision, match, f, FieldCap[f])
       IN  /\ fields' = [fields EXCEPT ![f] = e.value]
           /\ precision' = e.precision
    /\ pc' = IF k < Len(FieldNames) THEN FieldNames[k + 1] ELSE "build"
    /\ UNCHANGED <<raw, start, arg, match, dt, text, warned>>

\* the datetime(...) call of _parse; a ValueError gives a warning and None
Build ==
    /\ pc = "build"
    /\ dt' = BuildDatetime(fields, match)
    /\ warned' = (dt' = None)
    /\ pc' = "render"
    /\ UNCHANGED <<raw, start, arg, match, fields, precision, text>>

\* the rest of __init__: self.text
SetText ==
    /\ pc = "render"
    /\ text' = Render(dt, precision)
    /\ pc' = "done"
    /\ UNCHANGED <<raw, start, arg, match, fields, precision, dt, warned>>

\* the object is dropped; the next call of the constructor may follow
Discard ==
    /\ pc = "done"
    /\ pc' = "idle"
    /\ raw' = [kind |-> "none"]
    /\ start' = "FULL"
    /\ arg' = [kind |-> "none"]
    /\ match' = NoMatch
    /\ fields' = NoFields
    /\ precision' = "FULL"
    /\ dt' = None
    /\ text' = None
    /\ warned' = FALSE

Next ==
    \/ \E r \in Raws, p \in Precisions : New(r, p)
    \/ Match
    \/ ParseDatetime
    \/ ParseDate
    \/ ParseInt
    \/ ParsePrefix
    \/ ParseInvalid
    \/ \E k \in 1..Len(FieldNames) : ExtractField(k)
    \/ Build
    \/ SetText
    \/ Discard

Spec == Init /\ [][Next]_vars

\* the constructed object, once __init__ has returned
Done == pc = "done"

Self == [precision |-> precision, dt |-> dt, text |-> text]

\* the step-wise constructor and the constructor as a function agree
StepsAgree == Done => Self = DatePrefixOf(raw, start)

----------------------------------------------------------------------------
(* What the properties are stated with: the time line, the reading of a    *)
(* canonical text, the order of strings                                    *)

\* the number of leap years before year y
LeapYearsBefore(y) == ((y - 1) \div 4) - ((y - 1) \div 100) + ((y - 1) \div 400)

DaysBeforeMonth == <<0, 31, 59, 90, 120, 151, 181, 212, 243, 273, 304, 334>>

\* the number of the day y-mo-d, counted from 0001-01-01
DayNumber(y, mo, d) ==
    365 * (y - 1) + LeapYearsBefore(y) + DaysBeforeMonth[mo]
        + (IF mo > 2 THEN LeapYearsBefore(y + 1) - LeapYearsBefore(y) ELSE 0)
        + d

\* the number of days of the month mo of the year y
MonthDays(y, mo) ==
    DayNumber(IF mo = 12 THEN y + 1 ELSE y, IF mo = 12 THEN 1 ELSE mo + 1, 1)
        - DayNumber(y, mo, 1)

\* the minute of the time line a wall clock with a utcoffset of off falls in
MinuteOf(y, mo, d, h, mi, off) == DayNumber(y, mo, d) * 1440 + h * 60 + mi - off

AbsMinute(d) == MinuteOf(d.year, d.month, d.day, d.hour, d.minute, d.offset)

\* the instant a lies before the instant b
Before(a, b) ==
    \/ AbsMinute(a) < AbsMinute(b)
    \/ AbsMinute(a) = AbsMinute(b) /\ a.second < b.second
    \/ AbsMinute(a) = AbsMinute(b) /\ a.second = b.second
          /\ a.microsecond < b.microsecond

\* the number written at positions i .. i + n - 1 of t
Number(t, i, n) == ToInt(SubSeq(t, i, i + n - 1))

\* t has the shape of a prefix of YYYY-MM-DDTHH:MM:SS[.ffffff]+00:00
WellFormed(t) ==
    LET shape == <<"d", "d", "d", "d", "-", "d", "d", "-", "d", "d", "T",
                   "d", "d", ":", "d", "d", ":", "d", "d">>
        utc == <<"+", "0", "0", ":", "0", "0">>
        tail == SubSeq(t, 20, Len(t))
    IN  /\ \A i \in 1..Min(Len(t), 19) :
              IF shape[i] = "d" THEN t[i] \in Digit ELSE t[i] = shape[i]
        /\ Len(t) > 19 =>
              \/ tail = utc
              \/ /\ Len(tail) = 13
                 /\ tail[1] = "."
                 /\ \A i \in 2..7 : tail[i] \in Digit
                 /\ SubSeq(tail, 8, 13) = utc

\* the first minute of the UTC time line that the text t stands for, and how
\* many minutes it stands for
FirstMinute(t) ==
    MinuteOf(Number(t, 1, 4),
             IF Len(t) >= 7 THEN Number(t, 6, 2) ELSE 1,
             IF Len(t) >= 10 THEN Number(t, 9, 2) ELSE 1,
             IF Len(t) >= 13 THEN Number(t, 12, 2) ELSE 0,
             IF Len(t) >= 16 THEN Number(t, 15, 2) ELSE 0,
             0)

Minutes(t) ==
    IF Len(t) >= 16 THEN 1
    ELSE IF Len(t) >= 13 THEN 60
    ELSE IF Len(t) >= 10 THEN 1440
    ELSE IF Len(t) >= 7 THEN 1440 * MonthDays(Number(t, 1, 4), Number(t, 6, 2))
    ELSE 1440 * (DayNumber(Number(t, 1, 4) + 1, 1, 1)
                 - DayNumber(Number(t, 1, 4), 1, 1))

\* the text t shows the instant d in UTC, as far as t goes
Shows(t, d) ==
    /\ WellFormed(t)
    /\ FirstMinute(t) <= AbsMinute(d)
    /\ AbsMinute(d) < FirstMinute(t) + Minutes(t)
    /\ Len(t) >= 19 => Number(t, 18, 2) = d.second
    /\ Len(t) > 19 =>
          IF d.microsecond = 0 THEN Len(t) = 25
          ELSE Len(t) = 32 /\ Number(t, 21, 6) = d.microsecond

\* the code points of the characters of the strings of the model
CodePoint(c) ==
    CASE c \in Digit -> 48 + DigitVal(c)
      [] c = " " -> 32
      [] c = "+" -> 43
      [] c = "-" -> 45
      [] c = "." -> 46
      [] c = ":" -> 58
      [] c = "T" -> 84
      [] c = "Z" -> 90
      [] OTHER -> 120

\* a < b for two str: at the first difference, or a a proper prefix of b
LexLess(a, b) ==
    \E i \in 1..(Len(b)) :
        /\ \A j \in 1..(i - 1) : j <= Len(a) /\ a[j] = b[j]
        /\ \/ i = Len(a) + 1
           \/ i <= Len(a) /\ CodePoint(a[i]) < CodePoint(b[i])

StrRaw(s) == [kind |-> "str", s |-> s]

\* every DatePrefix the inputs construct
Constructed == {DatePrefixOf(r, p) : r \in Raws, p \in Precisions}

----------------------------------------------------------------------------
(* Properties                                                              *)

\* the length of d.isoformat() for a datetime in UTC
FullLength(d) == IF d.microsecond = 0 THEN 25 ELSE 32

\* C1 (as amended): the canonical text is present exactly when the instant
\* is present and the precision is not EMPTY; when present it shows the
\* instant in UTC in ISO-8601 form, cut to AT MOST the length of the
\* precision: 4, 7, 10, 13, 16, 19 characters for YEAR .. SECOND, and for
\* FULL the whole rendering, 25 characters without microseconds and 32 with.
C1_CanonicalText ==
    Done =>
        /\ (text # None) <=> (dt # None /\ precision # "EMPTY")
        /\ text # None =>
              /\ Shows(text[1], dt[1])
              /\ Len(text[1]) = IF precision = "FULL" THEN FullLength(dt[1])
                                ELSE PrecisionValue[precision]

\* C1 as stated: the text has exactly the declared length of the precision,
\* 32 characters for FULL included
C1_ExactLength ==
    Done =>
        /\ (text # None) <=> (dt # None /\ precision # "EMPTY")
        /\ text # None =>
              /\ Shows(text[1], dt[1])
              /\ Len(text[1]) = PrecisionValue[precision]

\* a string with a time zone suffix parsed at FULL precision: 25 characters
C1_Witness ==
    /\ Done
    /\ raw.kind = "str"
    /\ precision = "FULL"
    /\ text # None
    /\ dt[1].offset # 0
    /\ Len(text[1]) = 25

\* C2 (as amended): for every input that is not a DatePrefix the final
\* precision is at most the starting precision; for a DatePrefix input it
\* is the precision of that DatePrefix, whatever the starting precision.
C2_Monotonic ==
    Done =>
        IF raw.kind = "prefix" THEN precision = raw.p.precision
        ELSE PrecisionValue[precision] <= PrecisionValue[start]

\* C2 as stated: for every input shape the final precision is at most the
\* starting precision
C2_AnyShape == Done => PrecisionValue[precision] <= PrecisionValue[start]

\* a string whose missing fields lower a starting precision of MINUTE
C2_Witness ==
    /\ Done
    /\ raw.kind = "str"
    /\ start = "MINUTE"
    /\ precision = "MONTH"
    /\ text # None

\* the int or the four digit str r stands for a year from lo to hi
IsYear(r, lo, hi) ==
    \/ /\ r.kind = "str"
       /\ Len(r.s) = 4
       /\ \A i \in 1..4 : r.s[i] \in Digit
       /\ ToInt(r.s) >= lo /\ ToInt(r.s) <= hi
    \/ /\ r.kind = "int"
       /\ r.n > 1000 /\ r.n < 9999
       /\ r.n >= lo /\ r.n <= hi

YearOf(r) == IF r.kind = "int" THEN r.n ELSE ToInt(r.s)

\* C3 (as amended): for every year Y from 1000 to 2999, the string form of Y
\* (or the integer Y, strictly above 1000) at the default starting precision
\* gives precision YEAR and the four characters of Y as canonical text.
C3_BareYear ==
    (Done /\ start = "FULL" /\ IsYear(raw, 1000, 2999)) =>
        /\ precision = "YEAR"
        /\ text # None
        /\ Len(text[1]) = 4
        /\ \A i \in 1..4 : text[1][i] \in Digit
        /\ ToInt(text[1]) = YearOf(raw)

\* C3 as stated: the same for every four digit year, 1000 to 9999
C3_AnyFourDigitYear ==
    (Done /\ start = "FULL" /\ IsYear(raw, 1000, 9999)) =>
        /\ precision = "YEAR"
        /\ text # None
        /\ Len(text[1]) = 4
        /\ \A i \in 1..4 : text[1][i] \in Digit
        /\ ToInt(text[1]) = YearOf(raw)

\* the integer 2001 gives "2001"
C3_Witness ==
    /\ Done
    /\ start = "FULL"
    /\ raw = [kind |-> "int", n |-> 2001]
    /\ precision = "YEAR"
    /\ text = Some(<<"2", "0", "0", "1">>)

\* the number a matched group g of the match m stands for
GroupNumber(m, g) == ToInt(m[g])

\* the offset in minutes that the time zone suffix of the match m states:
\* sign x (hour, minute), the minute 0 when it is not written; zero without
\* a suffix or with Z
StatedOffset(m) ==
    IF m.tzsign = None THEN 0
    ELSE (IF m.tzsign = <<"-">> THEN -1 ELSE 1)
            * (60 * GroupNumber(m, "tzhour")
               + (IF m.tzminute = None THEN 0 ELSE GroupNumber(m, "tzminute")))

\* the str s gives all six fields and an offset of hours and minutes below
\* 24 hours, the six fields form a valid instant, and hour, minute and
\* second are at least least
FullyGiven(s, least) ==
    LET m == REGEXmatch(s)
    IN  /\ \A k \in 1..Len(FieldNames) : m[FieldNames[k]] # None
        /\ m.tzsign # None /\ m.tzminute # None
        /\ StatedOffset(m) > -1440 /\ StatedOffset(m) < 1440
        /\ GroupNumber(m, "month") >= 1 /\ GroupNumber(m, "month") <= 12
        /\ GroupNumber(m, "day") >= 1
        /\ GroupNumber(m, "day")
             <= MonthDays(GroupNumber(m, "year"), GroupNumber(m, "month"))
        /\ GroupNumber(m, "hour") >= least /\ GroupNumber(m, "hour") <= 23
        /\ GroupNumber(m, "minute") >= least /\ GroupNumber(m, "minute") <= 59
        /\ GroupNumber(m, "second") >= least /\ GroupNumber(m, "second") <= 59

\* the minute of the time line that the wall clock and offset written in s
\* fall in
StatedMinute(s) ==
    LET m == REGEXmatch(s)
    IN  MinuteOf(GroupNumber(m, "year"), GroupNumber(m, "month"),
                 GroupNumber(m, "day"), GroupNumber(m, "hour"),
                 GroupNumber(m, "minute"), StatedOffset(m))

\* C4 (as amended): a fully specified timestamp string with an offset of
\* hours and minutes whose hour, minute and second are all greater than zero
\* gives, at the default starting precision, precision FULL, and the
\* canonical text is the wall clock converted to UTC in the 25 characters
\* YYYY-MM-DDTHH:MM:SS+00:00.
C4_FullTimestamp ==
    (Done /\ start = "FULL" /\ raw.kind = "str" /\ FullyGiven(raw.s, 1)) =>
        /\ precision = "FULL"
        /\ text # None
        /\ Len(text[1]) = 25
        /\ WellFormed(text[1])
        /\ FirstMinute(text[1]) = StatedMinute(raw.s)
        /\ Number(text[1], 18, 2) = GroupNumber(REGEXmatch(raw.s), "second")

\* C4 as stated: every fully specified timestamp string with an offset that
\* forms a valid instant gives a precision of at least SECOND
C4_AtLeastSecond ==
    (Done /\ start = "FULL" /\ raw.kind = "str" /\ FullyGiven(raw.s, 0)) =>
        PrecisionValue[precision] >= PrecisionValue["SECOND"]

\* 2001-05-17T14:22:31+02:00 gives 2001-05-17T12:22:31+00:00
C4_Witness ==
    /\ Done
    /\ start = "FULL"
    /\ raw = StrRaw(IsoFormat(Datetime(2001, 5, 17, 14, 22, 31, 0, 120)))
    /\ precision = "FULL"
    /\ text = Some(IsoFormat(Datetime(2001, 5, 17, 12, 22, 31, 0, 0)))

\* the str s does not begin with four digits
NoYear(s) == ~(Len(s) >= 4 /\ \A i \in 1..4 : s[i] \in Digit)

\* C5: for None and for every string that does not begin with a 4-digit
\* year the instant is absent, the precision is EMPTY and the rendering is
\* the empty string.
C5_EmptyValue ==
    (Done /\ (raw.kind = "none" \/ (raw.kind = "str" /\ NoYear(raw.s)))) =>
        /\ dt = None
        /\ precision = "EMPTY"
        /\ Str(text) = <<>>

\* the digits the pattern matched in s do not form a valid instant: the
\* year matched and a month, day, hour, minute or second is out of range
\* (a field that is not written, or written as zero, counts as not given)
OutOfRange(s) ==
    LET m == REGEXmatch(s)
        n(g, default) ==
            IF m[g] = None \/ GroupNumber(m, g) = 0 THEN default
            ELSE GroupNumber(m, g)
    IN  /\ m.year # None
        /\ \/ n("month", 1) > 12
           \/ n("month", 1) <= 12
                /\ n("day", 1) > MonthDays(GroupNumber(m, "year"), n("month", 1))
           \/ n("hour", 0) > 23
           \/ n("minute", 0) > 59
           \/ n("second", 0) > 59

\* C6: when the digits matched do not form a valid instant the instant is
\* absent, the precision is EMPTY and the rendering is the empty string.
C6_InvalidCombination ==
    (Done /\ raw.kind = "str" /\ OutOfRange(raw.s)) =>
        /\ dt = None
        /\ precision = "EMPTY"
        /\ Str(text) = <<>>

\* str(DatePrefix(str(self))): the canonical text parsed again
Reparsed == Str(DatePrefixOf(StrRaw(Str(text)), "FULL").text)

\* the canonical text t reads back as it stands: it begins with a year
\* from 1000 to 2999, it does not end at the hour (the precision is not
\* HOUR: a string without minute and second parses to DAY), and where it
\* shows a time neither the hour nor the minute is 00
ReadsBack(t) ==
    /\ Len(t) >= 4
    /\ Number(t, 1, 4) >= 1000 /\ Number(t, 1, 4) <= 2999
    /\ Len(t) # PrecisionValue["HOUR"]
    /\ Len(t) >= 16 => Number(t, 12, 2) > 0 /\ Number(t, 15, 2) > 0

\* C7 (as amended): for p parsed from a string at the default starting
\* precision, parsing str(p) again gives a value equal to p, provided that
\* the canonical text of p is absent, or begins with a year from 1000 to
\* 2999, the precision of p is not HOUR, and the text shows no hour 00 and
\* no minute 00.
C7_RoundTrip ==
    (Done /\ raw.kind = "str" /\ start = "FULL"
          /\ (text = None \/ ReadsBack(text[1]))) =>
        Reparsed = Str(text)

\* C7 as stated: parsing str(p) again always gives a value equal to p
C7_AlwaysRoundTrip ==
    (Done /\ raw.kind = "str" /\ start = "FULL") => Reparsed = Str(text)

\* a timestamp that the conversion to UTC moved to the day before
C7_Witness ==
    /\ Done
    /\ raw.kind = "str"
    /\ start = "FULL"
    /\ text # None
    /\ Len(text[1]) = 25
    /\ ReadsBack(text[1])
    /\ dt[1].offset > 0
    /\ Number(text[1], 9, 2) # dt[1].day
    /\ Reparsed = text[1]

C9_Offset ==
    (Done /\ raw.kind = "str" /\ dt # None) =>
        dt[1].offset = StatedOffset(REGEXmatch(raw.s))

\* the caps of the six fields
StatedCap ==
    [year |-> "EMPTY", month |-> "YEAR", day |-> "MONTH",
     hour |-> "DAY", minute |-> "HOUR", second |-> "DAY"]

\* how many fields _parse has examined
Examined ==
    IF \E k \in 1..Len(FieldNames) : pc = FieldNames[k]
    THEN (CHOOSE k \in 1..Len(FieldNames) : pc = FieldNames[k]) - 1
    ELSE IF pc \in {"build", "render", "done"} /\ arg.kind = "str"
    THEN Len(FieldNames)
    ELSE 0

\* the k-th field did not match or is zero
Lowers(k) ==
    match[FieldNames[k]] = None \/ GroupNumber(match, FieldNames[k]) = 0

Least(S) == CHOOSE x \in S : \A y \in S : x <= y

\* C10: on the string path the precision is, after each field examined and
\* at the end, the minimum of the starting precision and the caps of the
\* fields examined so far that did not match or are zero (year EMPTY, month
\* YEAR, day MONTH, hour DAY, minute HOUR, second DAY); a field greater than
\* zero does not lower it, and it is never raised.
C10_Degradation ==
    (arg.kind = "str" /\ pc # "parse" /\ pc # "idle") =>
        PrecisionValue[precision] =
            Least({PrecisionValue[start]}
                  \cup {PrecisionValue[StatedCap[FieldNames[k]]] :
                          k \in {j \in 1..Examined : Lowers(j)}})

\* a minute is given and the second is not: the precision ends as DAY
C10_Witness ==
    /\ Done
    /\ arg.kind = "str"
    /\ start = "FULL"
    /\ match.minute # None
    /\ GroupNumber(match, "minute") > 0
    /\ match.second = None
    /\ precision = "DAY"

====
